---- MODULE Spec2Model ----
(***************************************************************************)
(* A model of arclio-login: the OAuth callback listener                    *)
(* (oauth_server.py), the login flow (cli.py), the credential store        *)
(* (config.py) and the token lifecycle manager (token_manager.py).         *)
(*                                                                         *)
(* Python values are rendered as follows.  None is the string "None" for   *)
(* the optional strings; an Optional object (self.result) is a sequence    *)
(* of length 0 or 1; a dict is a function whose DOMAIN is the set of keys  *)
(* it holds.                                                               *)
(***************************************************************************)
EXTENDS Integers, Sequences, FiniteSets, TLC

VARIABLES
    \* ---- OAuthCallbackServer (oauth_server.py) ----
    port,             \* self.port
    server,           \* self.server: "None" or "HTTPServer"
    result,           \* self.result: <<>> or <<OAuthCallbackResult>>
    threadState,      \* self._server_thread running serve_forever
    shutdownRequest,  \* HTTPServer.__shutdown_request
    isShutDown,       \* HTTPServer.__is_shut_down
    backlog,          \* connections waiting to be accepted
    current,          \* the connection the handler is working on
    lastResponse,     \* what the handler answered last
    connCount,        \* connections made so far
    occupied,         \* ports bound by other local processes
    probeIdx,         \* the candidate _find_available_port is probing, 0 outside it
    \* ---- the main thread: wait_for_callback, close, _login_async ----
    loopTime,         \* asyncio event loop clock, seconds
    mainPc,           \* position of the main thread
    waitPc,           \* position inside wait_for_callback
    startTime,        \* start_time of wait_for_callback
    timeout,          \* timeout of wait_for_callback
    waitResult,       \* what wait_for_callback returned
    closePc,          \* position inside close
    apiCalls,         \* calls made by a direct user of the listener
    lastCall,         \* the last call of a direct user: start, wait or close
    closeLog,         \* the close() calls that returned: "shutdown" or "noop"
    startOutcome,     \* what the last start() did
    loginOutcome,     \* how _login_async ended
    loginError,       \* the error fields _login_async printed (lines 71-73)
    tokens,           \* tokens of _login_async
    user,             \* user of _login_async
    \* ---- credential store and token manager ----
    creds,            \* CREDENTIALS_FILE: [kind, data]
    now,              \* time.time() * 1000, milliseconds
    gvtPc,            \* position inside get_valid_token
    gvtArg,           \* refresh token handed to the provider
    gvtResp,          \* <<the provider's 200 answer to the refresh>>, if any
    gvtRet,           \* how get_valid_token ended
    gvtPre,           \* credential store when get_valid_token was called
    refreshCalls,     \* provider refresh calls of the current get_valid_token
    saveTime,         \* clock read by the last set_tokens
    ticks,            \* advances of the wall clock so far
    lastOp,           \* the last operation a user ran on the store
    opRet,            \* how it ended: its value, or "raised"
    savedIn,          \* expires_in of the TokenSet set_tokens stored last, or -1
    fromOps           \* the store is what set_tokens, set_user_info and
                      \* clear_credentials made of an empty store

listenerVars == <<port, server, result, threadState, shutdownRequest, isShutDown,
                  backlog, current, lastResponse, connCount, occupied, probeIdx>>
mainVars == <<loopTime, mainPc, waitPc, startTime, timeout, waitResult, closePc,
              apiCalls, lastCall, closeLog, startOutcome, loginOutcome, loginError,
              tokens, user>>
storeVars == <<creds, now, saveTime, ticks, lastOp, opRet, savedIn, fromOps>>
gvtVars == <<gvtPc, gvtArg, gvtResp, gvtRet, gvtPre, refreshCalls>>
vars == <<listenerVars, mainVars, storeVars, gvtVars>>

None == "None"

(***************************************************************************)
(* Bounds of the model.                                                    *)
(***************************************************************************)
MaxConnections == 2    \* connections local clients make to one listener
MaxApiCalls == 3       \* calls a direct user makes on one listener
MaxTicks == 3          \* advances of the wall clock
ClockSteps == {60000}  \* what one advance adds to the wall clock, milliseconds

(***************************************************************************)
(* Python dicts.                                                           *)
(***************************************************************************)
EmptyDict == [k \in {} |-> None]
Has(d, k) == k \in DOMAIN d
Put(d, k, v) == (k :> v) @@ d
\* truthiness of d.get(k) for a string value: present and not ""
Truthy(d, k) == Has(d, k) /\ d[k] # ""

(***************************************************************************)
(* config.py: the credential store.                                        *)
(***************************************************************************)
MissingFile == [kind |-> "missing", data |-> EmptyDict]

\* json.load succeeds and gives something that is not a dict (a list, a
\* string, a number, null): lines 28-30 catch nothing, so the callers' .get
\* raises AttributeError and their item assignment TypeError
NotADict(file) == file.kind = "not_object"

\* _load_credentials: {} when the file is missing, cannot be read or is not
\* JSON; for a file that is NotADict the callers raise before using this
_load_credentials(file) ==
    IF file.kind = "object" THEN file.data ELSE EmptyDict

_save_credentials(data) == [kind |-> "object", data |-> data]

get_access_token(file) ==
    LET c == _load_credentials(file)
    IN  IF Has(c, "access_token") THEN c["access_token"] ELSE None

get_refresh_token(file) ==
    LET c == _load_credentials(file)
    IN  IF Has(c, "refresh_token") THEN c["refresh_token"] ELSE None

\* a variant without the 60-second buffer
is_token_expired_no_buffer(file, t) ==
    LET c == _load_credentials(file)
    IN  IF ~Has(c, "expires_at") THEN TRUE
        ELSE t > c["expires_at"]

\* is_token_expired at clock t (60-second buffer)
is_token_expired(file, t) ==
    LET c == _load_credentials(file)
    IN  IF ~Has(c, "expires_at") THEN TRUE
        ELSE t > c["expires_at"] - 60000

is_authenticated(file) == get_access_token(file) # None

\* a variant of set_tokens that adds expires_in in seconds to the clock in
\* milliseconds
set_tokens_buggy_expiry(file, tk, t) ==
    LET c0 == _load_credentials(file)
        c1 == Put(c0, "access_token", tk.access_token)
        c2 == IF tk.refresh_token # None /\ tk.refresh_token # ""
              THEN Put(c1, "refresh_token", tk.refresh_token) ELSE c1
        c3 == IF tk.id_token # None /\ tk.id_token # ""
              THEN Put(c2, "id_token", tk.id_token) ELSE c2
    IN  _save_credentials(Put(c3, "expires_at", t + tk.expires_in))

\* set_tokens at clock t: read, merge, write; line 93 raises on a file that
\* is NotADict and nothing is written
set_tokens(file, tk, t) ==
    IF NotADict(file) THEN file ELSE
    LET c0 == _load_credentials(file)
        c1 == Put(c0, "access_token", tk.access_token)
        c2 == IF tk.refresh_token # None /\ tk.refresh_token # ""
              THEN Put(c1, "refresh_token", tk.refresh_token) ELSE c1
        c3 == IF tk.id_token # None /\ tk.id_token # ""
              THEN Put(c2, "id_token", tk.id_token) ELSE c2
    IN  _save_credentials(Put(c3, "expires_at", t + tk.expires_in * 1000))

\* a variant that writes a fresh record instead of merging into the stored one
set_user_info_overwrites(file, email, user_id) ==
    LET c1 == IF email # None /\ email # "" THEN Put(EmptyDict, "user_email", email)
              ELSE EmptyDict
    IN  _save_credentials(Put(c1, "user_id", user_id))

\* set_user_info: read, merge, write
set_user_info(file, email, user_id) ==
    IF NotADict(file) THEN file ELSE
    LET c0 == _load_credentials(file)
        c1 == IF email # None /\ email # "" THEN Put(c0, "user_email", email) ELSE c0
    IN  _save_credentials(Put(c1, "user_id", user_id))

\* a variant that removes the token fields and keeps the rest of the record
clear_credentials_keeps_identity(file) ==
    IF file.kind # "object" THEN MissingFile
    ELSE _save_credentials(
            [k \in (DOMAIN file.data) \ {"access_token", "refresh_token",
                                        "id_token", "expires_at"} |-> file.data[k]])

\* clear_credentials: unlink the file if it exists
clear_credentials(file) == MissingFile

\* get_stored_credentials: <<>> for None
get_stored_credentials(file) ==
    LET c == _load_credentials(file)
        get(k) == IF Has(c, k) THEN c[k] ELSE None
    IN  IF ~Truthy(c, "access_token") THEN <<>>
        ELSE <<[access_token |-> c["access_token"],
                refresh_token |-> get("refresh_token"),
                id_token |-> get("id_token"),
                expires_at |-> get("expires_at"),
                user_email |-> get("user_email"),
                user_id |-> get("user_id")]>>

\* the read operations and what each returns, as the caller sees it
ReadOps == {"get_access_token", "get_stored_credentials", "is_authenticated",
            "is_token_expired"}
Bool(b) == IF b THEN "True" ELSE "False"
ReadValue(op, file, t) ==
    CASE op = "get_access_token" -> get_access_token(file)
      [] op = "get_stored_credentials" ->
            IF get_stored_credentials(file) = <<>> THEN None ELSE "StoredCredentials"
      [] op = "is_authenticated" -> Bool(is_authenticated(file))
      [] op = "is_token_expired" -> Bool(is_token_expired(file, t))

\* the history of the store's users: the operation, how it ended, the
\* expires_in behind the stored expires_at, and whether the store descends
\* from an empty one
StoreOp(op, ret, e, f) ==
    /\ lastOp' = op
    /\ opRet' = ret
    /\ savedIn' = e
    /\ fromOps' = f

(***************************************************************************)
(* types.py and the provider's answers.                                    *)
(***************************************************************************)
KindeTokens(access_token, refresh_token, id_token, expires_in) ==
    [access_token |-> access_token, refresh_token |-> refresh_token,
     id_token |-> id_token, token_type |-> "Bearer", expires_in |-> expires_in]

\* a 200 answer of POST /oauth2/token: a JSON object; r, i and e are
\* sequences of length 0 (key omitted) or 1
TokenResponse(a, r, i, e) ==
    ("access_token" :> a)
    @@ (IF r = <<>> THEN EmptyDict ELSE "refresh_token" :> r[1])
    @@ (IF i = <<>> THEN EmptyDict ELSE "id_token" :> i[1])
    @@ (IF e = <<>> THEN EmptyDict ELSE "expires_in" :> e[1])

RefreshResponses ==
    { TokenResponse(a, r, <<>>, e) :
        a \in {"at2", "h.u1.s"}, r \in {<<>>, <<"">>, <<"rt2">>},
        e \in {<<>>, <<0>>, <<120>>} }

\* the tokens a user of config.set_tokens stores
StoredTokenSets ==
    { KindeTokens(a, r, None, e) :
        a \in {"", "at1"}, r \in {None, "rt1"}, e \in {0, 60, 120} }

\* files found on disk before the program runs
InitFiles ==
    { MissingFile,
      [kind |-> "malformed", data |-> EmptyDict],
      _save_credentials(EmptyDict),
      _save_credentials(("access_token" :> "test") @@ ("expires_at" :> 1000)),
      _save_credentials(("refresh_token" :> "rt0") @@ ("expires_at" :> 1000)),
      _save_credentials(("access_token" :> "test") @@ ("expires_at" :> 1000)
                        @@ ("user_email" :> "old@b.com") @@ ("theme" :> "dark")) }

\* files whose content is not a JSON object of credential fields
ReadFiles ==
    InitFiles \cup { [kind |-> "unreadable", data |-> EmptyDict],
                     [kind |-> "not_object", data |-> EmptyDict] }

(***************************************************************************)
(* kinde_client.py: refresh_token, the part after the 200 answer.          *)
(***************************************************************************)
\* a variant that does not fall back on the refresh token it was given
refresh_token_drops_old(data, refresh_token) ==
    KindeTokens(data["access_token"],
                IF Has(data, "refresh_token") THEN data["refresh_token"] ELSE None,
                IF Has(data, "id_token") THEN data["id_token"] ELSE None,
                IF Has(data, "expires_in") THEN data["expires_in"] ELSE 3600)

\* a variant that never takes over a rotated refresh token
refresh_token_ignores_rotation(data, refresh_token) ==
    KindeTokens(data["access_token"],
                refresh_token,
                IF Has(data, "id_token") THEN data["id_token"] ELSE None,
                IF Has(data, "expires_in") THEN data["expires_in"] ELSE 3600)

\* lines 102-109: the KindeTokens made from a 200 answer to the refresh
refresh_token_result(data, refresh_token) ==
    KindeTokens(data["access_token"],
                IF Truthy(data, "refresh_token") THEN data["refresh_token"]
                ELSE refresh_token,
                IF Has(data, "id_token") THEN data["id_token"] ELSE None,
                IF Has(data, "expires_in") THEN data["expires_in"] ELSE 3600)

(***************************************************************************)
(* token_manager.py: get_valid_token.                                      *)
(***************************************************************************)
GvtReturn(outcome, token) == [outcome |-> outcome, token |-> token]

\* variants of lines 11-22: without the expiry test, without the test of the
\* access token, without the test of the refresh token
GvtDecide_refresh_always(file, t) ==
    LET access_token == get_access_token(file)
        refresh_token == get_refresh_token(file)
    IN  IF access_token = None \/ access_token = ""
        THEN GvtReturn("not_authenticated", None)
        ELSE IF refresh_token = None \/ refresh_token = ""
        THEN GvtReturn("reauth_required", None)
        ELSE GvtReturn("refresh", refresh_token)

GvtDecide_no_auth_check(file, t) ==
    LET access_token == get_access_token(file)
        refresh_token == get_refresh_token(file)
    IN  IF ~is_token_expired(file, t)
        THEN GvtReturn("ok", access_token)
        ELSE IF refresh_token = None \/ refresh_token = ""
        THEN GvtReturn("reauth_required", None)
        ELSE GvtReturn("refresh", refresh_token)

GvtDecide_refresh_none(file, t) ==
    LET access_token == get_access_token(file)
        refresh_token == get_refresh_token(file)
    IN  IF access_token = None \/ access_token = ""
        THEN GvtReturn("not_authenticated", None)
        ELSE IF ~is_token_expired(file, t)
        THEN GvtReturn("ok", access_token)
        ELSE GvtReturn("refresh", refresh_token)

\* lines 11-22: what the call decides from the store, before any network use
GvtDecide(file, t) ==
    LET access_token == get_access_token(file)
        refresh_token == get_refresh_token(file)
    IN  IF NotADict(file)
        THEN GvtReturn("raised", None)
        ELSE IF access_token = None \/ access_token = ""
        THEN GvtReturn("not_authenticated", None)
        ELSE IF ~is_token_expired(file, t)
        THEN GvtReturn("ok", access_token)
        ELSE IF refresh_token = None \/ refresh_token = ""
        THEN GvtReturn("reauth_required", None)
        ELSE GvtReturn("refresh", refresh_token)

\* get_valid_token up to its first await: it ends, or it sends the refresh
GvtCall ==
    /\ gvtPc # "refreshing"
    /\ LET d == GvtDecide(creds, now)
       IN  /\ gvtPre' = [creds |-> creds, now |-> now]
           /\ IF d.outcome = "refresh"
              THEN /\ gvtPc' = "refreshing"
                   /\ gvtArg' = d.token
                   /\ gvtResp' = <<>>
                   /\ refreshCalls' = 1
                   /\ gvtRet' = GvtReturn("pending", None)
              ELSE /\ gvtPc' = "done"
                   /\ gvtArg' = None
                   /\ gvtResp' = <<>>
                   /\ refreshCalls' = 0
                   /\ gvtRet' = d
    /\ UNCHANGED <<listenerVars, mainVars, storeVars>>

\* lines 25-28 when the provider answers 200: set_tokens, return
GvtRefreshOk(data) ==
    /\ gvtPc = "refreshing"
    /\ LET tk == refresh_token_result(data, gvtArg)
       IN  /\ creds' = set_tokens(creds, tk, now)
           /\ saveTime' = now
           /\ StoreOp("set_tokens", "ok", tk.expires_in, fromOps)
           /\ gvtRet' = GvtReturn("ok", tk.access_token)
    /\ gvtResp' = <<data>>
    /\ gvtPc' = "done"
    /\ UNCHANGED <<listenerVars, mainVars, now, ticks, gvtArg, gvtPre, refreshCalls>>

\* a variant that sends the refresh a second time before it gives up
GvtRefreshFail_retries ==
    /\ gvtPc = "refreshing"
    /\ IF refreshCalls < 2
       THEN /\ refreshCalls' = refreshCalls + 1
            /\ UNCHANGED <<gvtPc, gvtRet>>
       ELSE /\ gvtPc' = "done"
            /\ gvtRet' = GvtReturn("refresh_failed", None)
            /\ UNCHANGED refreshCalls
    /\ UNCHANGED <<listenerVars, mainVars, storeVars, gvtArg, gvtResp, gvtPre>>

\* line 25 when the provider answers anything else: refresh_token raises
\* (lines 94-100), get_valid_token does not catch it
GvtRefreshFail ==
    /\ gvtPc = "refreshing"
    /\ gvtPc' = "done"
    /\ gvtRet' = GvtReturn("refresh_failed", None)
    /\ UNCHANGED <<listenerVars, mainVars, storeVars, gvtArg, gvtResp, gvtPre, refreshCalls>>

\* the wall clock advances
Tick ==
    /\ ticks < MaxTicks
    /\ \E d \in ClockSteps : now' = now + d
    /\ ticks' = ticks + 1
    /\ UNCHANGED <<listenerVars, mainVars, gvtVars, creds, saveTime,
                   lastOp, opRet, savedIn, fromOps>>

\* get_valid_token has not been called since the store last changed
GvtIdle ==
    /\ gvtPc' = "idle"
    /\ gvtArg' = None
    /\ gvtResp' = <<>>
    /\ gvtRet' = GvtReturn("none", None)
    /\ gvtPre' = [creds |-> MissingFile, now |-> 0]
    /\ refreshCalls' = 0

\* direct users of the store, between two get_valid_token calls
StoreSetTokens(tk) ==
    /\ gvtPc # "refreshing"
    /\ creds' = set_tokens(creds, tk, now)
    /\ IF NotADict(creds)
       THEN UNCHANGED saveTime /\ StoreOp("set_tokens", "raised", savedIn, fromOps)
       ELSE saveTime' = now /\ StoreOp("set_tokens", "ok", tk.expires_in, fromOps)
    /\ GvtIdle
    /\ UNCHANGED <<listenerVars, mainVars, now, ticks>>

StoreSetUserInfo(email, user_id) ==
    /\ gvtPc # "refreshing"
    /\ creds' = set_user_info(creds, email, user_id)
    /\ StoreOp("set_user_info", IF NotADict(creds) THEN "raised" ELSE "ok",
               savedIn, fromOps)
    /\ GvtIdle
    /\ UNCHANGED <<listenerVars, mainVars, now, ticks, saveTime>>

StoreClear ==
    /\ gvtPc # "refreshing"
    /\ creds' = clear_credentials(creds)
    /\ StoreOp("clear_credentials",
               IF creds.kind = "missing" THEN "absent" ELSE "deleted", -1, TRUE)
    /\ GvtIdle
    /\ UNCHANGED <<listenerVars, mainVars, now, ticks, saveTime>>

\* cli.py lines 143-151: the logout command
Logout ==
    /\ gvtPc # "refreshing"
    /\ IF NotADict(creds)
       THEN /\ UNCHANGED creds
            /\ StoreOp("logout", "raised", savedIn, fromOps)
       ELSE IF ~is_authenticated(creds)
       THEN /\ UNCHANGED creds
            /\ StoreOp("logout", "Not logged in.", savedIn, fromOps)
       ELSE /\ creds' = clear_credentials(creds)
            /\ StoreOp("logout", "Logged out successfully", -1, TRUE)
    /\ GvtIdle
    /\ UNCHANGED <<listenerVars, mainVars, now, ticks, saveTime>>

\* a user of config calls one of the read operations
ReadCall(op) ==
    /\ gvtPc # "refreshing"
    /\ StoreOp(op, IF NotADict(creds) THEN "raised" ELSE ReadValue(op, creds, now),
               savedIn, fromOps)
    /\ UNCHANGED <<listenerVars, mainVars, gvtVars, creds, now, ticks, saveTime>>

(***************************************************************************)
(* oauth_server.py: the callback listener.                                 *)
(***************************************************************************)
DEFAULT_PORTS == <<3100, 3101, 3102, 3103, 3104>>
CALLBACK_TIMEOUT == 120

\* what asyncio.sleep(0.1) adds to the clock read in whole seconds: the
\* sleep lasts at least its delay and as much longer as the loop is busy
SleepAdvance == {60, 61}

\* timeouts a direct user passes to wait_for_callback, seconds
ApiTimeouts == {0, 60}

\* candidate lists a direct user passes to start
CandidateLists == {DEFAULT_PORTS, <<3100, 3101, 3102>>, <<3102>>}

OAuthCallbackResult(code, state, error, error_description) ==
    [code |-> code, state |-> state, error |-> error,
     error_description |-> error_description]

\* the requests local clients send: path and raw query string pairs
Request(path, query) == [path |-> path, query |-> query]
Requests ==
    { Request("/callback", ("code" :> "ABC") @@ ("state" :> "XYZ")),
      Request("/callback", "code" :> "DEF"),
      Request("/callback", "code" :> "ABC"),
      Request("/callback", ("error" :> "access_denied")
                            @@ ("error_description" :> "denied")),
      Request("/callback", "code" :> ""),
      Request("/callback", EmptyDict),
      Request("/callback", ("code" :> "ABC") @@ ("error" :> "access_denied")),
      Request("/health", EmptyDict),
      Request("/favicon.ico", EmptyDict) }

\* a connection: sent is FALSE while the client has not sent its request
Connection(sent, req) == [sent |-> sent, path |-> req.path, query |-> req.query]
Connections ==
    { Connection(TRUE, r) : r \in Requests }
    \cup { Connection(FALSE, Request("/callback", "code" :> "DEF")) }

\* parse_qs(query).get(k, [None])[0]: blank values are dropped
Param(query, k) == IF Truthy(query, k) THEN query[k] ELSE None

\* a variant that returns the first candidate without probing it
_find_available_port_unprobed(ports, occ) ==
    IF ports = <<>> THEN 0 ELSE Head(ports)

\* lines 37-46; 0 stands for the exception raised when no port is free
RECURSIVE _find_available_port(_, _)
_find_available_port(ports, occ) ==
    IF ports = <<>> THEN 0
    ELSE IF Head(ports) \notin occ THEN Head(ports)
    ELSE _find_available_port(Tail(ports), occ)

\* a variant that refuses a code that comes without a state
do_GET_requires_state(req, res) ==
    LET error == Param(req.query, "error")
        code == Param(req.query, "code")
    IN  IF req.path = "/callback"
        THEN IF error # None
             THEN [result |-> <<OAuthCallbackResult("", None, error,
                                    Param(req.query, "error_description"))>>,
                   response |-> "200 error page"]
             ELSE IF code = None
             THEN [result |-> <<OAuthCallbackResult("", None, "missing_code",
                                    "Authorization code not received")>>,
                   response |-> "400 Authorization code missing"]
             ELSE IF Param(req.query, "state") = None
             THEN [result |-> <<OAuthCallbackResult("", None, "invalid_state",
                                    None)>>,
                   response |-> "400 Invalid state"]
             ELSE [result |-> <<OAuthCallbackResult(code,
                                    Param(req.query, "state"), None, None)>>,
                   response |-> "200 success page"]
        ELSE IF req.path = "/health"
        THEN [result |-> res, response |-> "200 {status: ok}"]
        ELSE [result |-> res, response |-> "404"]

\* a variant that takes every path but /health for the callback path
do_GET_any_path(req, res) ==
    LET error == Param(req.query, "error")
        code == Param(req.query, "code")
    IN  IF req.path = "/health"
        THEN [result |-> res, response |-> "200 {status: ok}"]
        ELSE IF error # None
        THEN [result |-> <<OAuthCallbackResult("", None, error,
                               Param(req.query, "error_description"))>>,
              response |-> "200 error page"]
        ELSE IF code = None
        THEN [result |-> <<OAuthCallbackResult("", None, "missing_code",
                               "Authorization code not received")>>,
              response |-> "400 Authorization code missing"]
        ELSE [result |-> <<OAuthCallbackResult(code,
                               Param(req.query, "state"), None, None)>>,
              response |-> "200 success page"]

\* a variant without the test of line 74, if not code
do_GET_accepts_empty_code(req, res) ==
    LET error == Param(req.query, "error")
        code == Param(req.query, "code")
    IN  IF req.path = "/callback"
        THEN IF error # None
             THEN [result |-> <<OAuthCallbackResult("", None, error,
                                    Param(req.query, "error_description"))>>,
                   response |-> "200 error page"]
             ELSE [result |-> <<OAuthCallbackResult(IF code = None THEN "" ELSE code,
                                    Param(req.query, "state"), None, None)>>,
                   response |-> "200 success page"]
        ELSE IF req.path = "/health"
        THEN [result |-> res, response |-> "200 {status: ok}"]
        ELSE [result |-> res, response |-> "404"]

\* lines 58-101: the result slot and the answer after one GET
do_GET(req, res) ==
    LET error == Param(req.query, "error")
        code == Param(req.query, "code")
    IN  IF req.path = "/callback"
        THEN IF error # None
             THEN [result |-> <<OAuthCallbackResult("", None, error,
                                    Param(req.query, "error_description"))>>,
                   response |-> "200 error page"]
             ELSE IF code = None
             THEN [result |-> <<OAuthCallbackResult("", None, "missing_code",
                                    "Authorization code not received")>>,
                   response |-> "400 Authorization code missing"]
             ELSE [result |-> <<OAuthCallbackResult(code,
                                    Param(req.query, "state"), None, None)>>,
                   response |-> "200 success page"]
        ELSE IF req.path = "/health"
        THEN [result |-> res, response |-> "200 {status: ok}"]
        ELSE [result |-> res, response |-> "404"]

\* ---- local clients ----
\* a client connects; the connection waits in the listening socket's backlog
ClientConnect(c) ==
    /\ threadState # "none"
    /\ connCount < MaxConnections
    /\ backlog' = Append(backlog, c)
    /\ connCount' = connCount + 1
    /\ UNCHANGED <<port, server, result, threadState, shutdownRequest, isShutDown,
                   current, lastResponse, occupied, probeIdx, mainVars, storeVars, gvtVars>>

\* the client of the connection being handled sends its request at last
ClientSend ==
    /\ current # <<>>
    /\ ~current[1].sent
    /\ current' = <<[current[1] EXCEPT !.sent = TRUE]>>
    /\ UNCHANGED <<port, server, result, threadState, shutdownRequest, isShutDown,
                   backlog, lastResponse, connCount, occupied, probeIdx,
                   mainVars, storeVars, gvtVars>>

\* the client of the connection being handled closes it without a request
ClientAbort ==
    /\ current # <<>>
    /\ ~current[1].sent
    /\ current' = <<[current[1] EXCEPT !.sent = TRUE, !.path = "<eof>"]>>
    /\ UNCHANGED <<port, server, result, threadState, shutdownRequest, isShutDown,
                   backlog, lastResponse, connCount, occupied, probeIdx,
                   mainVars, storeVars, gvtVars>>

\* ---- the thread of line 230: HTTPServer.serve_forever ----
\* the loop finds a connection ready and no shutdown request: accept it
ListenerAccept ==
    /\ threadState = "serving"
    /\ ~shutdownRequest
    /\ backlog # <<>>
    /\ current' = <<Head(backlog)>>
    /\ backlog' = Tail(backlog)
    /\ threadState' = "handling"
    /\ UNCHANGED <<port, server, result, shutdownRequest, isShutDown,
                   lastResponse, connCount, occupied, probeIdx, mainVars, storeVars, gvtVars>>

\* the handler has read the request: do_GET, then back to the loop; a
\* connection closed before any request is dropped without an answer
ListenerHandle ==
    /\ threadState = "handling"
    /\ current[1].sent
    /\ IF current[1].path = "<eof>"
       THEN UNCHANGED <<result, lastResponse>>
       ELSE LET r == do_GET(current[1], result)
            IN  /\ result' = r.result
                /\ lastResponse' = r.response
    /\ current' = <<>>
    /\ threadState' = "serving"
    /\ UNCHANGED <<port, server, shutdownRequest, isShutDown, backlog,
                   connCount, occupied, probeIdx, mainVars, storeVars, gvtVars>>

\* the loop sees the shutdown request and leaves serve_forever
ListenerExit ==
    /\ threadState = "serving"
    /\ shutdownRequest
    /\ threadState' = "exited"
    /\ shutdownRequest' = FALSE
    /\ isShutDown' = TRUE
    /\ UNCHANGED <<port, server, result, backlog, current, lastResponse,
                   connCount, occupied, probeIdx, mainVars, storeVars, gvtVars>>

(***************************************************************************)
(* oauth_server.py: start, wait_for_callback and close, run by the main    *)
(* thread.                                                                 *)
(***************************************************************************)
StartOutcome(status, ports, occ) == [status |-> status, ports |-> ports, occ |-> occ]

\* lines 48-50 and 229-233: start(ports)
start(ports) ==
    LET p == _find_available_port(ports, occupied)
    IN  IF p = 0
        THEN /\ startOutcome' = StartOutcome("no_available_port", ports, occupied)
             /\ UNCHANGED <<port, server, threadState>>
        ELSE /\ startOutcome' = StartOutcome("started", ports, occupied)
             /\ port' = p
             /\ server' = "HTTPServer"
             /\ threadState' = "serving"

\* a variant of close() without the test of line 256
CloseHasServer_always == TRUE

\* line 256: close() has a server to shut down
CloseHasServer == server # None

\* a variant that tests the timeout before it looks at the result slot
WaitPoll_timeout_first ==
    /\ waitPc = "poll"
    /\ IF loopTime - startTime > timeout
       THEN IF CloseHasServer
            THEN /\ waitPc' = "closing"
                 /\ closePc' = "shutdown"
                 /\ shutdownRequest' = TRUE
                 /\ UNCHANGED <<waitResult, closeLog>>
            ELSE /\ waitPc' = "raised"
                 /\ closeLog' = Append(closeLog, "noop")
                 /\ UNCHANGED <<waitResult, closePc, shutdownRequest>>
       ELSE IF result # <<>>
       THEN /\ waitPc' = "returned"
            /\ waitResult' = result
            /\ UNCHANGED <<closePc, closeLog, shutdownRequest>>
       ELSE /\ waitPc' = "sleep"
            /\ UNCHANGED <<waitResult, closePc, closeLog, shutdownRequest>>
    /\ UNCHANGED <<port, server, result, threadState, isShutDown, backlog, current,
                   lastResponse, connCount, occupied, probeIdx, loopTime, mainPc, startTime,
                   timeout, apiCalls, lastCall, startOutcome, loginOutcome, loginError,
                   tokens, user, storeVars, gvtVars>>

\* lines 243-252: one pass of the polling loop
WaitPoll ==
    /\ waitPc = "poll"
    /\ IF result # <<>>
       THEN /\ waitPc' = "returned"
            /\ waitResult' = result
            /\ UNCHANGED <<closePc, closeLog, shutdownRequest>>
       ELSE IF loopTime - startTime > timeout
       THEN IF CloseHasServer
            THEN /\ waitPc' = "closing"
                 /\ closePc' = "shutdown"
                 /\ shutdownRequest' = TRUE
                 /\ UNCHANGED <<waitResult, closeLog>>
            ELSE /\ waitPc' = "raised"
                 /\ closeLog' = Append(closeLog, "noop")
                 /\ UNCHANGED <<waitResult, closePc, shutdownRequest>>
       ELSE /\ waitPc' = "sleep"
            /\ UNCHANGED <<waitResult, closePc, closeLog, shutdownRequest>>
    /\ UNCHANGED <<port, server, result, threadState, isShutDown, backlog, current,
                   lastResponse, connCount, occupied, probeIdx, loopTime, mainPc, startTime,
                   timeout, apiCalls, lastCall, startOutcome, loginOutcome, loginError, tokens, user,
                   storeVars, gvtVars>>

\* line 252: await asyncio.sleep(0.1)
WaitSleep ==
    /\ waitPc = "sleep"
    /\ \E d \in SleepAdvance : loopTime' = loopTime + d
    /\ waitPc' = "poll"
    /\ UNCHANGED <<listenerVars, mainPc, startTime, timeout, waitResult, closePc,
                   apiCalls, lastCall, closeLog, startOutcome, loginOutcome, loginError, tokens, user,
                   storeVars, gvtVars>>

\* a variant of close() that forgets line 258, self.server = None
CloseReturn_keeps_server ==
    /\ closePc = "shutdown"
    /\ isShutDown
    /\ closePc' = "none"
    /\ closeLog' = Append(closeLog, "shutdown")
    /\ IF waitPc = "closing"
       THEN waitPc' = "raised" /\ UNCHANGED mainPc
       ELSE IF mainPc = "login_finally"
       THEN mainPc' = "login_done" /\ UNCHANGED waitPc
       ELSE UNCHANGED <<mainPc, waitPc>>
    /\ UNCHANGED <<port, server, result, threadState, shutdownRequest, isShutDown, backlog,
                   current, lastResponse, connCount, occupied, probeIdx, loopTime, startTime,
                   timeout, waitResult, apiCalls, lastCall, startOutcome, loginOutcome, loginError,
                   tokens, user, storeVars, gvtVars>>

\* lines 257-258: shutdown() returns once serve_forever has left its loop,
\* then self.server = None; control goes back to whoever called close()
CloseReturn ==
    /\ closePc = "shutdown"
    /\ isShutDown
    /\ server' = None
    /\ closePc' = "none"
    /\ closeLog' = Append(closeLog, "shutdown")
    /\ IF waitPc = "closing"
       THEN waitPc' = "raised" /\ UNCHANGED mainPc
       ELSE IF mainPc = "login_finally"
       THEN mainPc' = "login_done" /\ UNCHANGED waitPc
       ELSE UNCHANGED <<mainPc, waitPc>>
    /\ UNCHANGED <<port, result, threadState, shutdownRequest, isShutDown, backlog,
                   current, lastResponse, connCount, occupied, probeIdx, loopTime, startTime,
                   timeout, waitResult, apiCalls, lastCall, startOutcome, loginOutcome, loginError,
                   tokens, user, storeVars, gvtVars>>

(***************************************************************************)
(* A direct user of OAuthCallbackServer (tests/test_oauth_server.py): it   *)
(* calls start, wait_for_callback and close in any order.                  *)
(***************************************************************************)
ApiReady ==
    /\ mainPc = "api"
    /\ waitPc \in {"none", "returned", "raised"}
    /\ closePc = "none"
    /\ apiCalls < MaxApiCalls

ApiStart(ports) ==
    /\ ApiReady
    /\ threadState = "none"
    /\ start(ports)
    /\ apiCalls' = apiCalls + 1
    /\ lastCall' = "start"
    /\ waitPc' = "none"
    /\ UNCHANGED <<result, shutdownRequest, isShutDown, backlog, current, lastResponse,
                   connCount, occupied, probeIdx, loopTime, mainPc, startTime, timeout,
                   waitResult, closePc, closeLog, loginOutcome, loginError, tokens, user,
                   storeVars, gvtVars>>

ApiWait(t) ==
    /\ ApiReady
    /\ waitPc' = "poll"
    /\ startTime' = loopTime
    /\ timeout' = t
    /\ waitResult' = <<>>
    /\ apiCalls' = apiCalls + 1
    /\ lastCall' = "wait"
    /\ UNCHANGED <<listenerVars, loopTime, mainPc, closePc, closeLog,
                   startOutcome, loginOutcome, loginError, tokens, user, storeVars, gvtVars>>

ApiClose ==
    /\ ApiReady
    /\ apiCalls' = apiCalls + 1
    /\ lastCall' = "close"
    /\ waitPc' = "none"
    /\ IF CloseHasServer
       THEN /\ closePc' = "shutdown"
            /\ shutdownRequest' = TRUE
            /\ UNCHANGED closeLog
       ELSE /\ closeLog' = Append(closeLog, "noop")
            /\ UNCHANGED <<closePc, shutdownRequest>>
    /\ UNCHANGED <<port, server, result, threadState, isShutDown, backlog, current,
                   lastResponse, connCount, occupied, probeIdx, loopTime, mainPc,
                   startTime, timeout, waitResult, startOutcome, loginOutcome, loginError,
                   tokens, user, storeVars, gvtVars>>

(***************************************************************************)
(* kinde_client.py: what the login flow uses.                              *)
(***************************************************************************)
KindeUser(sub, email) == [sub |-> sub, email |-> email]

\* lines 70-78: the KindeTokens made from a 200 answer to the code exchange
exchange_code_for_token(data) ==
    KindeTokens(data["access_token"],
                IF Has(data, "refresh_token") THEN data["refresh_token"] ELSE None,
                IF Has(data, "id_token") THEN data["id_token"] ELSE None,
                IF Has(data, "expires_in") THEN data["expires_in"] ELSE 3600)

ExchangeResponses ==
    { TokenResponse(a, r, <<>>, e) :
        a \in {"at1", "h.u1.s"}, r \in {<<>>, <<"rt1">>}, e \in {<<60>>} }

\* 200 answers of GET /oauth2/v2/user_profile
UserProfiles ==
    { ("sub" :> "u1") @@ ("email" :> "a@b.com"), "sub" :> "u2" }

\* lines 119-127: the KindeUser made from a 200 answer
get_user_info(data) ==
    KindeUser(data["sub"], IF Has(data, "email") THEN data["email"] ELSE None)

\* token.split("."), for the access tokens of the model
Split(token) ==
    IF token = "h.u1.s" THEN <<"h", "u1", "s">> ELSE <<token>>

\* json.loads(base64.urlsafe_b64decode(segment)): <<>> when it raises
DecodePayload(segment) ==
    IF segment = "u1" THEN <<("sub" :> "u1") @@ ("email" :> "a@b.com")>> ELSE <<>>

\* lines 132-155: <<>> when it raises "Failed to decode JWT token"
_decode_token(token) ==
    LET parts == Split(token)
    IN  IF Len(parts) # 3 THEN <<>>
        ELSE LET payload == DecodePayload(parts[2])
             IN  IF payload = <<>> THEN <<>>
                 ELSE <<KindeUser(IF Has(payload[1], "sub") THEN payload[1]["sub"] ELSE "",
                                  IF Has(payload[1], "email") THEN payload[1]["email"]
                                  ELSE None)>>

(***************************************************************************)
(* cli.py: _login_async.                                                   *)
(***************************************************************************)
\* lines 51-68: start the listener, open the browser, call wait_for_callback
LoginBegin ==
    /\ mainPc = "login"
    /\ start(DEFAULT_PORTS)
    /\ IF _find_available_port(DEFAULT_PORTS, occupied) = 0
       THEN /\ mainPc' = "login_exit"
            /\ loginOutcome' = "no_available_port"
            /\ UNCHANGED loginError
            /\ UNCHANGED <<waitPc, startTime, timeout>>
       ELSE /\ mainPc' = "login_waiting"
            /\ waitPc' = "poll"
            /\ startTime' = loopTime
            /\ timeout' = CALLBACK_TIMEOUT
            /\ UNCHANGED <<loginOutcome, loginError>>
    /\ UNCHANGED <<result, shutdownRequest, isShutDown, backlog, current, lastResponse,
                   connCount, occupied, probeIdx, loopTime, waitResult, closePc, apiCalls, lastCall,
                   closeLog, tokens, user, storeVars, gvtVars>>

\* a variant without the test of line 70: the code of an error result,
\* which is empty, goes to the exchange
LoginAfterWait_ignores_error ==
    /\ mainPc = "login_waiting"
    /\ waitPc \in {"returned", "raised"}
    /\ IF waitPc = "raised"
       THEN /\ mainPc' = "login_exit"
            /\ loginOutcome' = "timeout"
            /\ UNCHANGED loginError
       ELSE mainPc' = "login_exchange" /\ UNCHANGED <<loginOutcome, loginError>>
    /\ UNCHANGED <<listenerVars, loopTime, waitPc, startTime, timeout, waitResult,
                   closePc, apiCalls, lastCall, closeLog, startOutcome, tokens, user,
                   storeVars, gvtVars>>

\* lines 68-74: wait_for_callback raised, or returned an error result, or
\* returned a code
LoginAfterWait ==
    /\ mainPc = "login_waiting"
    /\ waitPc \in {"returned", "raised"}
    /\ IF waitPc = "raised"
       THEN /\ mainPc' = "login_exit"
            /\ loginOutcome' = "timeout"
            /\ UNCHANGED loginError
       ELSE IF waitResult[1].error # None /\ waitResult[1].error # ""
       THEN /\ mainPc' = "login_exit"
            /\ loginOutcome' = "denied"
            /\ loginError' = <<[error |-> waitResult[1].error,
                                error_description |->
                                    IF waitResult[1].error_description = ""
                                    THEN None
                                    ELSE waitResult[1].error_description]>>
       ELSE mainPc' = "login_exchange" /\ UNCHANGED <<loginOutcome, loginError>>
    /\ UNCHANGED <<listenerVars, loopTime, waitPc, startTime, timeout, waitResult,
                   closePc, apiCalls, lastCall, closeLog, startOutcome, tokens, user,
                   storeVars, gvtVars>>

\* a variant that saves the tokens as soon as the exchange has answered,
\* before the identity is known
LoginExchange_persists_early(data) ==
    /\ mainPc = "login_exchange"
    /\ tokens' = <<exchange_code_for_token(data)>>
    /\ mainPc' = "login_userinfo"
    /\ creds' = set_tokens(creds, exchange_code_for_token(data), now)
    /\ saveTime' = now
    /\ StoreOp("set_tokens", "ok", exchange_code_for_token(data).expires_in, fromOps)
    /\ UNCHANGED <<listenerVars, loopTime, waitPc, startTime, timeout, waitResult,
                   closePc, apiCalls, lastCall, closeLog, startOutcome, loginOutcome,
                   loginError, user, now, ticks, gvtVars>>

\* lines 76-77: the provider answers the code exchange with 200
LoginExchange(data) ==
    /\ mainPc = "login_exchange"
    /\ tokens' = <<exchange_code_for_token(data)>>
    /\ mainPc' = "login_userinfo"
    /\ UNCHANGED <<listenerVars, loopTime, waitPc, startTime, timeout, waitResult,
                   closePc, apiCalls, lastCall, closeLog, startOutcome, loginOutcome, loginError, user,
                   storeVars, gvtVars>>

\* lines 76-77: the provider refuses the code: "Token exchange failed"
LoginExchangeFail ==
    /\ mainPc = "login_exchange"
    /\ mainPc' = "login_exit"
    /\ loginOutcome' = "exchange_failed"
    /\ UNCHANGED loginError
    /\ UNCHANGED <<listenerVars, loopTime, waitPc, startTime, timeout, waitResult,
                   closePc, apiCalls, lastCall, closeLog, startOutcome, tokens, user,
                   storeVars, gvtVars>>

\* lines 79-80: the user profile endpoint answers 200
LoginUserInfo(data) ==
    /\ mainPc = "login_userinfo"
    /\ user' = <<get_user_info(data)>>
    /\ mainPc' = "login_persist"
    /\ UNCHANGED <<listenerVars, loopTime, waitPc, startTime, timeout, waitResult,
                   closePc, apiCalls, lastCall, closeLog, startOutcome, loginOutcome, loginError, tokens,
                   storeVars, gvtVars>>

\* lines 79-80: the endpoint answers anything else: decode the access token
LoginUserInfoFallback ==
    /\ mainPc = "login_userinfo"
    /\ LET u == _decode_token(tokens[1].access_token)
       IN  IF u = <<>>
           THEN /\ mainPc' = "login_exit"
                /\ loginOutcome' = "decode_failed"
                /\ UNCHANGED <<user, loginError>>
           ELSE /\ mainPc' = "login_persist"
                /\ user' = u
                /\ UNCHANGED <<loginOutcome, loginError>>
    /\ UNCHANGED <<listenerVars, loopTime, waitPc, startTime, timeout, waitResult,
                   closePc, apiCalls, lastCall, closeLog, startOutcome, tokens,
                   storeVars, gvtVars>>

\* lines 82-87: both writes succeed
LoginPersist ==
    /\ mainPc = "login_persist"
    /\ creds' = set_user_info(set_tokens(creds, tokens[1], now),
                              user[1].email, user[1].sub)
    /\ saveTime' = now
    /\ StoreOp("set_user_info", "ok", tokens[1].expires_in, fromOps)
    /\ mainPc' = "login_exit"
    /\ loginOutcome' = "ok"
    /\ UNCHANGED loginError
    /\ UNCHANGED <<listenerVars, loopTime, waitPc, startTime, timeout, waitResult,
                   closePc, apiCalls, lastCall, closeLog, startOutcome, tokens, user,
                   now, ticks, gvtVars>>

\* lines 82-83: a write raises (the file system refuses it): in set_tokens
\* when first is TRUE, else in set_user_info
LoginPersistFail(first) ==
    /\ mainPc = "login_persist"
    /\ IF first
       THEN UNCHANGED <<creds, saveTime, lastOp, opRet, savedIn, fromOps>>
       ELSE /\ creds' = set_tokens(creds, tokens[1], now)
            /\ saveTime' = now
            /\ StoreOp("set_tokens", "ok", tokens[1].expires_in, fromOps)
    /\ mainPc' = "login_exit"
    /\ loginOutcome' = "write_failed"
    /\ UNCHANGED loginError
    /\ UNCHANGED <<listenerVars, loopTime, waitPc, startTime, timeout, waitResult,
                   closePc, apiCalls, lastCall, closeLog, startOutcome, tokens, user,
                   now, ticks, gvtVars>>

\* a variant of _login_async without its finally clause
LoginFinally_skips_close ==
    /\ mainPc = "login_exit"
    /\ mainPc' = "login_done"
    /\ UNCHANGED <<listenerVars, loopTime, waitPc, startTime, timeout, waitResult,
                   closePc, closeLog, apiCalls, lastCall, startOutcome, loginOutcome, loginError, tokens, user,
                   storeVars, gvtVars>>

\* lines 89-90: finally: server.close()
LoginFinally ==
    /\ mainPc = "login_exit"
    /\ IF CloseHasServer
       THEN /\ mainPc' = "login_finally"
            /\ closePc' = "shutdown"
            /\ shutdownRequest' = TRUE
            /\ UNCHANGED closeLog
       ELSE /\ mainPc' = "login_done"
            /\ closeLog' = Append(closeLog, "noop")
            /\ UNCHANGED <<closePc, shutdownRequest>>
    /\ UNCHANGED <<port, server, result, threadState, isShutDown, backlog, current,
                   lastResponse, connCount, occupied, probeIdx, loopTime, waitPc, startTime,
                   timeout, waitResult, apiCalls, lastCall, startOutcome, loginOutcome, loginError, tokens, user,
                   storeVars, gvtVars>>

(***************************************************************************)
(* Initial states and specifications.                                      *)
(***************************************************************************)
\* OAuthCallbackServer.__init__ (lines 31-35), no server yet
InitListener ==
    /\ port = 0
    /\ server = None
    /\ result = <<>>
    /\ threadState = "none"
    /\ shutdownRequest = FALSE
    /\ isShutDown = FALSE
    /\ backlog = <<>>
    /\ current = <<>>
    /\ lastResponse = "none"
    /\ connCount = 0
    /\ probeIdx = 0

InitMain ==
    /\ loopTime = 0
    /\ waitPc = "none"
    /\ startTime = 0
    /\ timeout = 0
    /\ waitResult = <<>>
    /\ closePc = "none"
    /\ apiCalls = 0
    /\ closeLog = <<>>
    /\ lastCall = "none"
    /\ startOutcome = StartOutcome("none", <<>>, {})
    /\ loginOutcome = "none"
    /\ loginError = <<>>
    /\ tokens = <<>>
    /\ user = <<>>

InitGvt ==
    /\ gvtPc = "idle"
    /\ gvtArg = None
    /\ gvtResp = <<>>
    /\ gvtRet = GvtReturn("none", None)
    /\ gvtPre = [creds |-> MissingFile, now |-> 0]
    /\ refreshCalls = 0

\* ports other processes hold when the listener runs
PortSet == {DEFAULT_PORTS[i] : i \in 1..Len(DEFAULT_PORTS)}
OccupiedChoices == {{}, PortSet}

\* nobody has used the store yet
InitStoreOp ==
    /\ lastOp = "none"
    /\ opRet = "none"
    /\ savedIn = -1
    /\ fromOps = (creds = MissingFile)

\* the store a login finds: none, or the record of an earlier login
LoginFiles ==
    { MissingFile,
      _save_credentials(("access_token" :> "at0") @@ ("refresh_token" :> "rt0")
                        @@ ("id_token" :> "id0") @@ ("expires_at" :> 1000)
                        @@ ("user_email" :> "old@b.com") @@ ("user_id" :> "u0")) }

\* the listener and the login flow
Init ==
    /\ InitListener
    /\ InitMain
    /\ InitGvt
    /\ mainPc \in {"api", "login"}
    /\ occupied \in OccupiedChoices
    /\ creds \in (IF mainPc = "login" THEN LoginFiles ELSE {MissingFile})
    /\ now = 0
    /\ saveTime = 0
    /\ ticks = 0
    /\ InitStoreOp

ListenerStep == ListenerAccept \/ ListenerHandle \/ ListenerExit

WaitStep == WaitPoll \/ WaitSleep \/ CloseReturn

\* another local process binds or releases a candidate port
OtherBind(p) ==
    /\ p \notin occupied
    /\ ~(server = "HTTPServer" /\ p = port)
    /\ occupied' = occupied \cup {p}
    /\ UNCHANGED <<port, server, result, threadState, shutdownRequest, isShutDown,
                   backlog, current, lastResponse, connCount, probeIdx,
                   mainVars, storeVars, gvtVars>>

OtherRelease(p) ==
    /\ p \in occupied
    /\ occupied' = occupied \ {p}
    /\ UNCHANGED <<port, server, result, threadState, shutdownRequest, isShutDown,
                   backlog, current, lastResponse, connCount, probeIdx,
                   mainVars, storeVars, gvtVars>>

\* start under every occupancy of the candidate ports; the other processes
\* act between two calls
InitStart ==
    /\ InitListener
    /\ InitMain
    /\ InitGvt
    /\ mainPc = "api"
    /\ occupied \in SUBSET PortSet
    /\ creds = MissingFile
    /\ now = 0
    /\ saveTime = 0
    /\ ticks = 0
    /\ InitStoreOp

\* ---- start, statement by statement, with other processes in between ----
\* line 49: start(ports) enters _find_available_port
StartCall(ports) ==
    /\ ApiReady
    /\ threadState = "none"
    /\ startOutcome.status \notin {"probing", "binding"}
    /\ startOutcome' = StartOutcome("probing", ports, occupied)
    /\ probeIdx' = 1
    /\ apiCalls' = apiCalls + 1
    /\ lastCall' = "start"
    /\ waitPc' = "none"
    /\ UNCHANGED <<port, server, result, threadState, shutdownRequest, isShutDown,
                   backlog, current, lastResponse, connCount, occupied,
                   loopTime, mainPc, startTime, timeout, waitResult, closePc,
                   closeLog, loginOutcome, loginError, tokens, user,
                   storeVars, gvtVars>>

\* lines 39-46: one pass of the loop of _find_available_port: the probe
\* socket binds the candidate and is closed again, or the next candidate is
\* tried, or the list is exhausted and the exception of line 46 is raised
StartProbe ==
    /\ startOutcome.status = "probing"
    /\ LET ports == startOutcome.ports
       IN  IF probeIdx > Len(ports)
           THEN /\ startOutcome' = StartOutcome("no_available_port", ports, occupied)
                /\ probeIdx' = 0
                /\ UNCHANGED port
           ELSE IF ports[probeIdx] \notin occupied
           THEN /\ port' = ports[probeIdx]
                /\ startOutcome' = StartOutcome("binding", ports, occupied)
                /\ probeIdx' = 0
           ELSE /\ probeIdx' = probeIdx + 1
                /\ UNCHANGED <<port, startOutcome>>
    /\ UNCHANGED <<server, result, threadState, shutdownRequest, isShutDown,
                   backlog, current, lastResponse, connCount, occupied,
                   loopTime, mainPc, waitPc, startTime, timeout, waitResult, closePc,
                   apiCalls, lastCall, closeLog, loginOutcome, loginError, tokens, user,
                   storeVars, gvtVars>>

\* lines 229-233: HTTPServer binds self.port, or raises OSError (address
\* already in use) when another process has taken it since the probe
StartBind ==
    /\ startOutcome.status = "binding"
    /\ IF port \in occupied
       THEN /\ startOutcome' = StartOutcome("bind_failed", startOutcome.ports, occupied)
            /\ UNCHANGED <<server, threadState>>
       ELSE /\ startOutcome' = StartOutcome("started", startOutcome.ports, occupied)
            /\ server' = "HTTPServer"
            /\ threadState' = "serving"
    /\ UNCHANGED <<port, result, shutdownRequest, isShutDown,
                   backlog, current, lastResponse, connCount, occupied, probeIdx,
                   loopTime, mainPc, waitPc, startTime, timeout, waitResult, closePc,
                   apiCalls, lastCall, closeLog, loginOutcome, loginError, tokens, user,
                   storeVars, gvtVars>>

NextContend ==
    \/ \E ports \in CandidateLists : StartCall(ports)
    \/ StartProbe
    \/ StartBind
    \/ \E p \in PortSet : OtherBind(p)
    \/ \E p \in PortSet : OtherRelease(p)

\* start while other processes bind and release the candidate ports
SpecContend == InitStart /\ [][NextContend]_vars

NextStart ==
    \/ \E ports \in CandidateLists : ApiStart(ports)
    \/ \E p \in PortSet : OtherBind(p)
    \/ \E p \in PortSet : OtherRelease(p)

SpecStart == InitStart /\ [][NextStart]_vars

Next ==
    \/ \E c \in Connections : ClientConnect(c)
    \/ ClientSend
    \/ ClientAbort
    \/ ListenerAccept
    \/ ListenerHandle
    \/ ListenerExit
    \/ WaitPoll
    \/ WaitSleep
    \/ CloseReturn
    \/ \E ports \in CandidateLists : ApiStart(ports)
    \/ \E t \in ApiTimeouts : ApiWait(t)
    \/ ApiClose
    \/ LoginBegin
    \/ LoginAfterWait
    \/ \E data \in ExchangeResponses : LoginExchange(data)
    \/ LoginExchangeFail
    \/ \E data \in UserProfiles : LoginUserInfo(data)
    \/ LoginUserInfoFallback
    \/ LoginPersist
    \/ \E first \in BOOLEAN : LoginPersistFail(first)
    \/ LoginFinally

Spec == Init /\ [][Next]_vars

\* the main thread keeps running the call it is in, and the listener thread
\* keeps running serve_forever; the clients owe nothing
FairSpec ==
    /\ Init /\ [][Next]_vars
    /\ WF_vars(WaitStep)
    /\ WF_vars(ListenerStep)

\* the credential store and the token manager
InitToken ==
    /\ InitListener
    /\ InitMain
    /\ InitGvt
    /\ mainPc = "api"
    /\ occupied = {}
    /\ creds \in InitFiles
    /\ now = 0
    /\ saveTime = 0
    /\ ticks = 0
    /\ InitStoreOp

NextToken ==
    \/ GvtCall
    \/ \E data \in RefreshResponses : GvtRefreshOk(data)
    \/ GvtRefreshFail
    \/ Tick
    \/ \E tk \in StoredTokenSets : StoreSetTokens(tk)
    \/ \E e \in {None, "a@b.com"}, u \in {"u1"} : StoreSetUserInfo(e, u)
    \/ StoreClear
    \/ Logout

SpecToken == InitToken /\ [][NextToken]_vars

\* the read operations on every kind of file
InitRead ==
    /\ InitListener
    /\ InitMain
    /\ InitGvt
    /\ mainPc = "api"
    /\ occupied = {}
    /\ creds \in ReadFiles
    /\ now = 0
    /\ saveTime = 0
    /\ ticks = 0
    /\ InitStoreOp

NextRead ==
    \/ \E op \in ReadOps : ReadCall(op)
    \/ GvtCall
    \/ \E data \in RefreshResponses : GvtRefreshOk(data)
    \/ GvtRefreshFail
    \/ Tick
    \/ \E tk \in StoredTokenSets : StoreSetTokens(tk)
    \/ StoreClear
    \/ Logout

SpecRead == InitRead /\ [][NextRead]_vars

(***************************************************************************)
(* The claims.                                                             *)
(***************************************************************************)
Closed == server = None /\ threadState \in {"none", "exited"}

\* C1: the result slot is written at most once: once a callback request has
\* recorded a result, no later request changes it.
ResultWrittenAtMostOnce == [][result # <<>> => result' = result]_vars

\* C2: wait_for_callback returns only a recorded result, and when it fails
\* with the timeout error the timeout has elapsed and the listener is
\* closed: the server reference is cleared and serve_forever has ended.
TimeoutClosesListener ==
    /\ waitPc = "returned" => waitResult # <<>>
    /\ waitPc = "raised" =>
          /\ loopTime - startTime > timeout
          /\ server = None
          /\ threadState \in {"none", "exited"}
          /\ closePc = "none"

\* a started listener timed out with no result recorded
TimeoutWitness ==
    /\ waitPc = "raised"
    /\ startOutcome.status = "started"
    /\ threadState = "exited"
    /\ result = <<>>

\* C3: every call of wait_for_callback ends, by returning or by raising,
\* whatever the local clients do.
WaitForCallbackTerminates ==
    (waitPc = "poll") ~> (waitPc \in {"returned", "raised"})

\* C4: when _login_async has ended, for whatever reason, the listener is
\* closed.
LoginClosesListener ==
    mainPc = "login_done" => Closed /\ closePc = "none"

\* a login that succeeded and left through the finally clause
LoginClosedWitness ==
    /\ mainPc = "login_done"
    /\ loginOutcome = "ok"
    /\ threadState = "exited"
    /\ closeLog = <<"shutdown">>

\* C5: start binds the first candidate port, in list order, that no other
\* process occupies; when all are occupied it fails with the no-available-
\* port error and there is no server and no thread.
StartBindsFirstFreePort ==
    LET o == startOutcome
        free(i) == o.ports[i] \notin o.occ
    IN  /\ o.status = "started" =>
              /\ \E i \in 1..Len(o.ports) :
                    /\ free(i)
                    /\ \A j \in 1..(i - 1) : ~free(j)
                    /\ port = o.ports[i]
              /\ server = "HTTPServer"
              /\ threadState = "serving"
        /\ o.status = "no_available_port" =>
              /\ \A i \in 1..Len(o.ports) : ~free(i)
              /\ server = None
              /\ threadState = "none"

\* candidates 3100, 3101, 3102 with 3100 and 3101 occupied: 3102 is bound
StartWitness ==
    /\ startOutcome = StartOutcome("started", <<3100, 3101, 3102>>, {3100, 3101})
    /\ port = 3102

\* C6: close() never shuts down a server that is not there; once a close()
\* call has returned the listener is closed, whatever state it was called
\* in; and a close() call that follows one changes nothing and returns at
\* once.
CloseIdempotent ==
    /\ [](closePc = "shutdown" => server = "HTTPServer")
    /\ [](closePc = "none" /\ (lastCall = "close" \/ mainPc = "login_done")
            => Closed)
    /\ [][(lastCall = "close" /\ closePc = "none"
           /\ lastCall' = "close" /\ apiCalls' = apiCalls + 1)
          => (UNCHANGED listenerVars /\ closePc' = "none")]_vars

\* close() while Listening, then close() again
CloseTwiceWitness ==
    /\ closeLog = <<"shutdown", "noop">>
    /\ lastCall = "close"
    /\ threadState = "exited"

\* the credential store as get_valid_token found it
PreData == _load_credentials(gvtPre.creds)
PreHasAccessToken == Truthy(PreData, "access_token")
PreExpired ==
    \/ ~Has(PreData, "expires_at")
    \/ gvtPre.now > PreData["expires_at"] - 60000

\* C7: on an expired token with a refresh token stored, get_valid_token
\* makes exactly one refresh call; when the provider answers it, the store
\* holds the new access token and expires_at = clock at the save +
\* expires_in * 1000, and the new access token is returned.
RefreshPersistsNewToken ==
    /\ refreshCalls <= 1
    /\ (gvtPc = "done" /\ PreHasAccessToken /\ PreExpired
        /\ Truthy(PreData, "refresh_token")) =>
          /\ refreshCalls = 1
          /\ gvtRet.outcome \in {"ok", "refresh_failed"}
          /\ gvtRet.outcome = "ok" =>
                /\ gvtResp # <<>>
                /\ gvtRet.token = gvtResp[1]["access_token"]
                /\ creds.kind = "object"
                /\ creds.data["access_token"] = gvtResp[1]["access_token"]
                /\ creds.data["expires_at"] =
                      saveTime + 1000 * (IF Has(gvtResp[1], "expires_in")
                                         THEN gvtResp[1]["expires_in"] ELSE 3600)
                /\ gvtPre.now <= saveTime /\ saveTime <= now

\* a refresh answered after the clock moved on, with expires_in = 120
RefreshWitness ==
    /\ gvtPc = "done"
    /\ gvtRet.outcome = "ok"
    /\ gvtResp # <<>>
    /\ Has(gvtResp[1], "expires_in") /\ gvtResp[1]["expires_in"] = 120
    /\ saveTime > gvtPre.now

\* C8: on a stored access token that is not expired, get_valid_token
\* returns exactly that token, calls the provider not at all and leaves the
\* store as it was.
ValidTokenFastPath ==
    (gvtPc = "done" /\ PreHasAccessToken /\ ~PreExpired) =>
        /\ gvtRet = GvtReturn("ok", PreData["access_token"])
        /\ refreshCalls = 0
        /\ gvtResp = <<>>
        /\ creds = gvtPre.creds

\* a token used at the very edge of its validity
FastPathWitness ==
    /\ gvtPc = "done"
    /\ PreHasAccessToken
    /\ Has(PreData, "expires_at")
    /\ gvtPre.now = PreData["expires_at"] - 60000
    /\ gvtRet.outcome = "ok"

\* C9: with no access token stored (no file, a cleared store, a file
\* without the key), get_valid_token fails with the not-authenticated
\* error, calls the provider not at all and leaves the store as it was.
NoTokenNotAuthenticated ==
    (gvtPc = "done" /\ ~Has(PreData, "access_token")) =>
        /\ gvtRet = GvtReturn("not_authenticated", None)
        /\ refreshCalls = 0
        /\ gvtResp = <<>>
        /\ creds = gvtPre.creds

\* a file that holds a refresh token and no access token
NoTokenWitness ==
    /\ gvtPc = "done"
    /\ gvtPre.creds.kind = "object"
    /\ ~Has(PreData, "access_token")
    /\ Has(PreData, "refresh_token")
    /\ gvtRet.outcome = "not_authenticated"

\* C10: on an expired token with no refresh token stored, get_valid_token
\* fails with the reauthentication-required error, calls the provider not
\* at all and leaves the store as it was.
ExpiredNoRefreshToken ==
    (gvtPc = "done" /\ PreHasAccessToken /\ PreExpired
     /\ ~Has(PreData, "refresh_token")) =>
        /\ gvtRet = GvtReturn("reauth_required", None)
        /\ refreshCalls = 0
        /\ gvtResp = <<>>
        /\ creds = gvtPre.creds

\* a token saved without a refresh token, used after it expired
ExpiredNoRefreshWitness ==
    /\ gvtPc = "done"
    /\ PreHasAccessToken
    /\ Has(PreData, "expires_at")
    /\ gvtPre.now > PreData["expires_at"] - 60000
    /\ ~Has(PreData, "refresh_token")
    /\ gvtRet.outcome = "reauth_required"

\* C11: when the provider refuses the refresh, get_valid_token has made
\* exactly one refresh call, the failure is what the caller gets, and the
\* credential store is as it was when get_valid_token was called.
RefreshFailureKeepsStore ==
    gvtRet.outcome = "refresh_failed" =>
        /\ gvtPc = "done"
        /\ refreshCalls = 1
        /\ gvtResp = <<>>
        /\ gvtRet.token = None
        /\ creds = gvtPre.creds

\* a refresh refused after the clock moved on; the old tokens are still there
RefreshFailureWitness ==
    /\ gvtRet.outcome = "refresh_failed"
    /\ now > gvtPre.now
    /\ Truthy(creds.data, "access_token")
    /\ Truthy(creds.data, "refresh_token")
    /\ creds.data["refresh_token"] = gvtArg

\* C12: after every successful refresh through get_valid_token the store
\* holds a refresh token: the one the provider's answer carried, or, when
\* the answer carried none, the one stored before the call.
RefreshKeepsRefreshToken ==
    (gvtPc = "done" /\ gvtRet.outcome = "ok" /\ refreshCalls = 1) =>
        /\ gvtResp # <<>>
        /\ Truthy(PreData, "refresh_token")
        /\ Truthy(creds.data, "refresh_token")
        /\ creds.data["refresh_token"] =
              IF Truthy(gvtResp[1], "refresh_token")
              THEN gvtResp[1]["refresh_token"]
              ELSE PreData["refresh_token"]

\* a second refresh: the first one rotated the refresh token to rt2, this
\* answer carries none and rt2 is kept
RefreshKeepsWitness ==
    /\ gvtPc = "done" /\ gvtRet.outcome = "ok" /\ refreshCalls = 1
    /\ gvtResp # <<>>
    /\ ~Has(gvtResp[1], "refresh_token")
    /\ PreData["refresh_token"] = "rt2"
    /\ creds.data["refresh_token"] = "rt2"

\* C13 as stated: whatever expires_in = E the TokenSet saved by set_tokens
\* has, is_token_expired() is false at the clock reading of the save and
\* true once the clock is more than E*1000 - 60000 ms past it.
TokenFreshAfterSave ==
    savedIn # -1 =>
        /\ now = saveTime => ~is_token_expired(creds, now)
        /\ now - saveTime > savedIn * 1000 - 60000 => is_token_expired(creds, now)

\* C13 as amended: with expires_in = E saved at clock reading s,
\* is_token_expired() at clock reading t is true exactly when
\* t - s > E*1000 - 60000; so it is false at the save's own clock reading
\* when E >= 60, and true from the save on when E < 60.
ExpiryFollowsSave ==
    savedIn # -1 =>
        /\ is_token_expired(creds, now) <=> (now - saveTime > savedIn * 1000 - 60000)
        /\ (now = saveTime /\ savedIn >= 60) => ~is_token_expired(creds, now)
        /\ savedIn < 60 => is_token_expired(creds, now)

\* expires_in = 120, read exactly 60000 ms after the save: the last clock
\* reading at which the token is not yet expired
ExpiryWitness ==
    /\ savedIn = 120
    /\ lastOp = "set_tokens"
    /\ now - saveTime = 60000
    /\ ~is_token_expired(creds, now)

\* C14: in every state of the credential store, is_authenticated() is true
\* exactly when an access_token is stored and it is not empty.
AuthenticatedIffNonEmptyToken ==
    is_authenticated(creds) <=> Truthy(_load_credentials(creds), "access_token")

\* C15: after the logout command, run on a store that set_tokens,
\* set_user_info and clear_credentials made of an empty one, the record is
\* gone (no token field and no identity field can be read back) and the
\* command has not failed.
LogoutDeletesRecord ==
    (lastOp = "logout" /\ fromOps) =>
        /\ opRet # "raised"
        /\ creds = MissingFile
        /\ DOMAIN _load_credentials(creds) = {}

\* the keys set_tokens may write, and the keys set_user_info may write
TokenKeys == {"access_token", "refresh_token", "id_token", "expires_at"}
IdentityKeys == {"user_email", "user_id"}

\* this step of the store changes no key outside D: none is dropped, none
\* is added and none changes its value
KeptOutside(D) ==
    LET f == _load_credentials(creds)
        g == _load_credentials(creds')
    IN  /\ (DOMAIN f) \ D = (DOMAIN g) \ D
        /\ \A k \in (DOMAIN f) \ D : g[k] = f[k]

\* C16: set_tokens changes nothing but the token fields and expires_at,
\* set_user_info nothing but the identity fields (unknown keys are kept by
\* both), and after one followed by the other, in either order, the record
\* holds access_token, expires_at and user_id.
MergeNotOverwrite ==
    /\ [][lastOp' = "set_tokens" => KeptOutside(TokenKeys)]_vars
    /\ [][lastOp' = "set_user_info" => KeptOutside(IdentityKeys)]_vars
    /\ [][(\/ lastOp = "set_tokens" /\ lastOp' = "set_user_info"
           \/ lastOp = "set_user_info" /\ lastOp' = "set_tokens")
          => {"access_token", "expires_at", "user_id"}
                \subseteq DOMAIN _load_credentials(creds')]_vars

\* set_tokens, then set_user_info without an email, on a record that held
\* an email and an unknown key: all of it is there
MergeWitness ==
    /\ lastOp = "set_user_info"
    /\ creds.kind = "object"
    /\ DOMAIN creds.data = {"access_token", "refresh_token", "expires_at",
                            "user_email", "user_id", "theme"}
    /\ creds.data["access_token"] = "at1"
    /\ creds.data["refresh_token"] = "rt1"
    /\ creds.data["user_email"] = "old@b.com"
    /\ creds.data["theme"] = "dark"
    /\ savedIn = 120

\* every read of the store answers as for no credentials
ReadsAbsent ==
    /\ get_access_token(creds) = None
    /\ get_refresh_token(creds) = None
    /\ get_stored_credentials(creds) = <<>>
    /\ ~is_authenticated(creds)
    /\ is_token_expired(creds, now)

\* C17: clear_credentials never fails, whether the file is there (it is
\* deleted) or not (nothing happens); after it, once or again, and while
\* there is no file, every read returns absent and is_authenticated() is
\* false.
ClearIdempotent ==
    /\ lastOp = "clear_credentials" =>
          /\ opRet \in {"absent", "deleted"}
          /\ creds = MissingFile
    /\ creds.kind = "missing" => ReadsAbsent

\* tokens were saved and removed, then clear_credentials ran again on the
\* absent file
ClearAgainWitness ==
    /\ lastOp = "clear_credentials"
    /\ opRet = "absent"
    /\ saveTime > 0
    /\ creds = MissingFile

\* C18: a read operation never fails its caller: on a file that is
\* missing, unreadable or not a JSON object of credential fields, each of
\* get_access_token, get_stored_credentials, is_authenticated and
\* is_token_expired answers what it answers when nothing is stored.
ReadsNeverFail ==
    (lastOp \in ReadOps /\ creds.kind # "object") =>
        /\ opRet # "raised"
        /\ opRet = ReadValue(lastOp, MissingFile, now)

\* the awaited callback result is an error result, and _login_async is
\* past its wait
AfterErrorResult ==
    /\ mainPc \in {"login_exchange", "login_userinfo", "login_persist",
                    "login_exit", "login_finally", "login_done"}
    /\ waitPc = "returned"
    /\ waitResult[1].error # None

\* C19: when the awaited callback result is an error result, the login
\* ends with the authorization-denied outcome carrying the result's error
\* and error_description, no token exchange and no user-info call has been
\* made, and the credential store is untouched; no other result ends so.
DeniedLoginStopsEarly ==
    /\ AfterErrorResult =>
          /\ loginOutcome = "denied"
          /\ mainPc \in {"login_exit", "login_finally", "login_done"}
          /\ loginError = <<[error |-> waitResult[1].error,
                             error_description |-> waitResult[1].error_description]>>
          /\ tokens = <<>>
          /\ user = <<>>
          /\ lastOp = "none"
          /\ creds \in LoginFiles
    /\ loginOutcome = "denied" => AfterErrorResult

\* the provider redirected with error=access_denied while credentials of
\* an earlier login were stored: the login is over, the record is intact
DeniedLoginWitness ==
    /\ mainPc = "login_done"
    /\ loginOutcome = "denied"
    /\ loginError = <<[error |-> "access_denied", error_description |-> "denied"]>>
    /\ creds.kind = "object"
    /\ creds.data["access_token"] = "at0"

\* the two shapes of a callback result
SuccessShape(r) == r.code # "" /\ r.code # None /\ r.error = None
FailureShape(r) == r.error # None /\ r.error # "" /\ r.code = ""

\* C20: every result the listener records is a success (a non-empty code,
\* no error) or a failure (an error, an empty code), never both and never
\* neither; and a /callback request that carries neither a code nor an
\* error records the failure missing_code.
ResultHasOneShape ==
    /\ [](result # <<>> =>
            /\ SuccessShape(result[1]) \/ FailureShape(result[1])
            /\ ~(SuccessShape(result[1]) /\ FailureShape(result[1])))
    /\ [][(/\ threadState = "handling" /\ threadState' = "serving"
           /\ current[1].path = "/callback"
           /\ ~Truthy(current[1].query, "code")
           /\ ~Truthy(current[1].query, "error"))
          => (/\ result' # <<>>
              /\ FailureShape(result'[1])
              /\ result'[1].error = "missing_code")]_vars

\* a /callback request with an empty query was answered 400 and recorded
\* as missing_code
MissingCodeWitness ==
    /\ result # <<>>
    /\ result[1].error = "missing_code"
    /\ result[1].code = ""
    /\ lastResponse = "400 Authorization code missing"
    /\ threadState = "serving"

\* the ways _login_async ends before it has an identity
LoginFailures == {"no_available_port", "timeout", "denied", "exchange_failed",
                  "decode_failed"}

\* C21: the login flow writes to the credential store only once the
\* callback returned a code, the exchange returned tokens and the identity
\* fetch returned a user, obtained in that order; when the wait, the
\* exchange or the identity fetch (its fallback decode included) fails,
\* the store is as the login found it.
LoginWritesLast ==
    /\ [][creds' # creds =>
            /\ mainPc = "login_persist"
            /\ waitPc = "returned" /\ waitResult[1].error = None
            /\ tokens # <<>>
            /\ user # <<>>]_vars
    /\ [](user # <<>> => tokens # <<>>)
    /\ [](tokens # <<>> => waitPc = "returned" /\ waitResult[1].error = None)
    /\ [](loginOutcome \in LoginFailures =>
            /\ lastOp = "none"
            /\ creds \in LoginFiles)

\* the exchange answered, the profile endpoint did not and the access token
\* could not be decoded: the login is over and the earlier record intact
LoginFailureWitness ==
    /\ mainPc = "login_done"
    /\ loginOutcome = "decode_failed"
    /\ tokens # <<>>
    /\ lastOp = "none"
    /\ creds.kind = "object"
    /\ creds.data["access_token"] = "at0"

\* C22: a poll of wait_for_callback that finds a result recorded returns
\* that result, also when the timeout has elapsed at that poll, and the
\* return closes nothing: the server, its thread and its socket are as
\* they were.
RecordedResultBeatsTimeout ==
    [][(waitPc = "poll" /\ waitPc' # "poll" /\ result # <<>>) =>
          /\ waitPc' = "returned"
          /\ waitResult' = result
          /\ closePc' = closePc /\ closeLog' = closeLog
          /\ UNCHANGED listenerVars]_vars

\* the call returned a code although more than its timeout had passed,
\* and the listener is still serving
LateResultWitness ==
    /\ waitPc = "returned"
    /\ loopTime - startTime > timeout
    /\ waitResult # <<>> /\ waitResult[1].code = "ABC"
    /\ server = "HTTPServer"
    /\ threadState = "serving"
    /\ closeLog = <<>>

\* C23: when wait_for_callback has failed with the timeout error the
\* result slot is empty, at that moment and ever after: a listener never
\* ends both timed out and holding a captured result.
TimedOutSlotEmpty ==
    waitPc = "raised" => result = <<>>

\* C24: with other processes binding and releasing candidate ports while
\* start runs, start fails only with the no-available-port error and only
\* when every candidate port is occupied at the moment it fails.
StartFailsOnlyWhenAllOccupied ==
    startOutcome.status \in {"no_available_port", "bind_failed"} =>
        /\ startOutcome.status = "no_available_port"
        /\ \A i \in 1..Len(startOutcome.ports) :
              startOutcome.ports[i] \in startOutcome.occ

\* the stored value of key k is v, where None stands for no stored value
StoredIs(k, v) ==
    LET c == _load_credentials(creds)
    IN  IF v = None THEN ~Has(c, k) ELSE Has(c, k) /\ c[k] = v

\* C25: after a successful login the stored refresh_token and id_token
\* are those of the TokenSet the code exchange of that login returned,
\* absent when it returned none: nothing of an earlier login or refresh
\* survives.
LoginReplacesTokens ==
    loginOutcome = "ok" =>
        /\ StoredIs("access_token", tokens[1].access_token)
        /\ StoredIs("refresh_token", tokens[1].refresh_token)
        /\ StoredIs("id_token", tokens[1].id_token)

\* C26: after a successful login the stored identity is the one fetched in
\* that login: user_id is its subject and user_email its email, absent
\* when it has none.
LoginReplacesIdentity ==
    loginOutcome = "ok" =>
        /\ StoredIs("user_id", user[1].sub)
        /\ StoredIs("user_email", user[1].email)

\* C27: a request to /health or to any path other than /callback leaves
\* the recorded result and the listener as they are, whether a result has
\* been captured or not: /health is answered with the fixed liveness
\* payload, any other path with not found.
OtherPathsChangeNothing ==
    [][(/\ threadState = "handling" /\ threadState' = "serving"
        /\ current[1].path \notin {"/callback", "<eof>"})
       => (/\ result' = result
           /\ lastResponse' = IF current[1].path = "/health"
                               THEN "200 {status: ok}" ELSE "404"
           /\ UNCHANGED <<port, server, shutdownRequest, isShutDown, backlog>>
           /\ UNCHANGED <<waitPc, waitResult, closePc>>)]_vars

\* /health answered after a code was captured: the result is still there
HealthAfterCaptureWitness ==
    /\ result # <<>> /\ result[1].code = "ABC"
    /\ lastResponse = "200 {status: ok}"
    /\ threadState = "serving"
    /\ server = "HTTPServer"

\* C28: the state of the authorize URL is not compared with the callback:
\* a /callback request with a code and no error is recorded as the success
\* carrying that code, and answered with the success page, whatever its
\* state parameter is, an absent one included; and a login whose wait
\* returned a code goes on to the token exchange whatever state the result
\* carries.
StateNotVerified ==
    /\ [][(/\ threadState = "handling" /\ threadState' = "serving"
           /\ current[1].path = "/callback"
           /\ Truthy(current[1].query, "code")
           /\ ~Truthy(current[1].query, "error"))
          => (/\ result' = <<OAuthCallbackResult(current[1].query["code"],
                                Param(current[1].query, "state"), None, None)>>
              /\ lastResponse' = "200 success page")]_vars
    /\ [][(/\ mainPc = "login_waiting" /\ mainPc' # "login_waiting"
           /\ waitPc = "returned"
           /\ waitResult[1].code # "")
          => (mainPc' = "login_exchange" /\ loginOutcome' = loginOutcome)]_vars

\* a login at its token exchange with the code of a callback that carried
\* no state
NoStateWitness ==
    /\ mainPc = "login_exchange"
    /\ waitResult = <<OAuthCallbackResult("ABC", None, None, None)>>
    /\ lastResponse = "200 success page"

====
